---- MODULE Spec2Model ----
(***************************************************************************)
(* A model of geopandas.tools.overlay (src/geopandas/tools/overlay.py):    *)
(* the dispatcher `overlay`, the intersection and difference builders, the *)
(* symmetric-difference, union and identity composers and the geometry     *)
(* type filter `_collection_extract`.                                      *)
(*                                                                         *)
(* Geometries are finite sets of atoms of a small planar cell complex      *)
(* (unit squares, the edges some of them share, one corner point); tables  *)
(* are records of column names, the active geometry column, row labels and *)
(* rows.                                                                   *)
(***************************************************************************)
EXTENDS Integers, Sequences, FiniteSets, TLC

VARIABLES df1, df2, how, keep_geom_type, make_valid,
          pc, geom_type, w1, w2, result, raw, err, warns, queries, fast

vars == <<df1, df2, how, keep_geom_type, make_valid,
          pc, geom_type, w1, w2, result, raw, err, warns, queries, fast>>

\* ------------------------------------------------------------------------
\* Bounds of the model
\* ------------------------------------------------------------------------

\* rows of df1 plus rows of df2 in a call
MaxRows == 3

\* ------------------------------------------------------------------------
\* Sequence helpers
\* ------------------------------------------------------------------------

Range(s) == {s[i] : i \in DOMAIN s}

Iota(n) == [i \in 1..n |-> i - 1]

RECURSIVE SumSeq(_)
SumSeq(s) == IF s = <<>> THEN 0 ELSE Head(s) + SumSeq(Tail(s))

Without(s, x) == SelectSeq(s, LAMBDA c : c # x)

\* ------------------------------------------------------------------------
\* Geometry kernel (shapely): a cell complex
\*   s1 s2 s3 : the unit squares [0,1], [1,2], [2,3] x [0,1]
\*   s9       : the unit square [5,6] x [3,4], away from the others
\*   e12, e23 : the edges x = 1 and x = 2 shared by neighbouring squares
\*   l9       : a segment beside s9, [7,8] x {4}, that touches nothing
\*   p1       : the corner (1,0), an end point of e12
\* ------------------------------------------------------------------------

Atoms == {"s1", "s2", "s3", "s9", "e12", "e23", "l9", "p1"}

Dim(a) == CASE a \in {"s1", "s2", "s3", "s9"} -> 2
            [] a \in {"e12", "e23", "l9"} -> 1
            [] OTHER -> 0

\* the atoms covered by the (closed) point set of atom a
Cl(a) == CASE a = "s1" -> {"s1", "e12", "p1"}
           [] a = "s2" -> {"s2", "e12", "e23", "p1"}
           [] a = "s3" -> {"s3", "e23"}
           [] a = "e12" -> {"e12", "p1"}
           [] OTHER -> {a}

\* <<minx, miny, maxx, maxy>>
AtomBox(a) == CASE a = "s1" -> <<0, 0, 1, 1>>
                [] a = "s2" -> <<1, 0, 2, 1>>
                [] a = "s3" -> <<2, 0, 3, 1>>
                [] a = "s9" -> <<5, 3, 6, 4>>
                [] a = "e12" -> <<1, 0, 1, 1>>
                [] a = "e23" -> <<2, 0, 2, 1>>
                [] a = "l9" -> <<7, 4, 8, 4>>
                [] OTHER -> <<1, 0, 1, 0>>

Closure(S) == UNION {Cl(a) : a \in S}

Maximal(S) == {a \in S : \A b \in S \ {a} : a \notin Cl(b)}

\* Table cells: a number, a missing value (NaN / None), or a geometry.  An
\* invalid polygon is a geometry with valid = FALSE whose atoms are what
\* make_valid turns it into.
Num(n) == [k |-> "num", n |-> n, atoms |-> {}, valid |-> TRUE]

NaN == [k |-> "nan", n |-> 0, atoms |-> {}, valid |-> TRUE]

Geom(S) == [k |-> "geom", n |-> 0, atoms |-> S, valid |-> TRUE]

InvalidPolygon(S) == [k |-> "geom", n |-> 0, atoms |-> S, valid |-> FALSE]

isna(c) == c.k = "nan"

is_empty(g) == g.k = "geom" /\ g.atoms = {}

is_valid(g) == g.valid

POLYGON_GEOM_TYPES == {"Polygon", "MultiPolygon"}

LINE_GEOM_TYPES == {"LineString", "MultiLineString", "LinearRing"}

POINT_GEOM_TYPES == {"Point", "MultiPoint"}

AtomType(a) == CASE Dim(a) = 2 -> "Polygon"
                 [] Dim(a) = 1 -> "LineString"
                 [] OTHER -> "Point"

\* GeoSeries.geom_type of one cell
GeomTypeOf(g) ==
    IF g.k # "geom" THEN "None"
    ELSE IF ~g.valid THEN "Polygon"
    ELSE LET dims == {Dim(a) : a \in g.atoms}
             many == Cardinality(g.atoms) > 1
         IN  CASE dims = {2} -> IF many THEN "MultiPolygon" ELSE "Polygon"
               [] dims = {1} -> IF many THEN "MultiLineString" ELSE "LineString"
               [] dims = {0} -> IF many THEN "MultiPoint" ELSE "Point"
               [] OTHER -> "GeometryCollection"

Intersects(g, h) == Closure(g.atoms) \cap Closure(h.atoms) # {}

\* the geometry of the atoms S that an operation on operands of validity ok
\* returns: GEOS promises a valid result for valid operands only, and what
\* comes of an invalid operand is taken to be invalid, unless it is empty
Computed(S, ok) == [k |-> "geom", n |-> 0, atoms |-> S, valid |-> ok \/ S = {}]

Intersection(g, h) ==
    Computed(Maximal(Closure(g.atoms) \cap Closure(h.atoms)), g.valid /\ h.valid)

\* a difference that subtracts nothing
DifferenceNothing(g, h) == g

Difference(g, h) ==
    Computed({a \in g.atoms : a \notin Closure(h.atoms)}, g.valid /\ h.valid)

\* a repair that leaves the geometry as it is
MakeValidNothing(g) == g

MakeValid(g) == [g EXCEPT !.valid = TRUE]

\* the bounding box of a set of atoms, <<>> (all NaN) when there is none
BoxOf(S) ==
    IF S = {} THEN <<>>
    ELSE LET Lo(i) == CHOOSE v \in {AtomBox(a)[i] : a \in S} :
                          \A a \in S : v <= AtomBox(a)[i]
             Hi(i) == CHOOSE v \in {AtomBox(a)[i] : a \in S} :
                          \A a \in S : v >= AtomBox(a)[i]
         IN  <<Lo(1), Lo(2), Hi(3), Hi(4)>>

\* b1[i] <= b2[j], FALSE when either box is NaN
BoxLe(b1, i, b2, j) == b1 # <<>> /\ b2 # <<>> /\ b1[i] <= b2[j]

\* ------------------------------------------------------------------------
\* Tables (pandas / GeoDataFrame)
\*   cols  : the column names in order      gcol : the active geometry column
\*   index : the row labels                 rows : one function col -> cell per row
\*   err   : the exception an operation on the table raised, "" when none
\*   series: the value is a GeoSeries, not a GeoDataFrame
\* ------------------------------------------------------------------------

Frame(cols, gcol, index, rows, crs) ==
    [cols |-> cols, gcol |-> gcol, index |-> index, rows |-> rows,
     crs |-> crs, err |-> "", series |-> FALSE]

\* what an operation that raised e leaves
Failed(e) ==
    [cols |-> <<>>, gcol |-> "", index |-> <<>>, rows |-> <<>>,
     crs |-> "", err |-> e, series |-> FALSE]

\* a local that is not bound yet
Unset == Failed("")

NRows(df) == Len(df.rows)

RECURSIVE KeepAt(_, _, _)
KeepAt(s, K, i) ==
    IF i > Len(s) THEN <<>>
    ELSE (IF i \in K THEN <<s[i]>> ELSE <<>>) \o KeepAt(s, K, i + 1)

\* a selection that keeps every row
TakeRowsAll(df, K) == df

\* df[mask]: the rows at the positions K, with their labels
TakeRows(df, K) ==
    [df EXCEPT !.rows = KeepAt(df.rows, K, 1), !.index = KeepAt(df.index, K, 1)]

\* df.iloc[:0]
NoRows(df) == [df EXCEPT !.rows = <<>>, !.index = <<>>]

\* df.geometry: the cells of the active geometry column
GeomCol(df) == [i \in 1..NRows(df) |-> df.rows[i][df.gcol]]

\* df.geom_type
GeomTypes(df) == [i \in 1..NRows(df) |-> GeomTypeOf(df.rows[i][df.gcol])]

\* df.drop(c, axis=1); dropping the geometry column leaves a plain table
Drop(df, c) ==
    IF c \notin Range(df.cols) THEN Failed("KeyError")
    ELSE [df EXCEPT !.cols = Without(df.cols, c),
                    !.gcol = IF c = df.gcol THEN "" ELSE df.gcol,
                    !.rows = [i \in 1..NRows(df) |->
                                 [x \in DOMAIN df.rows[i] \ {c} |-> df.rows[i][x]]]]

\* the row r of a table with columns old, under the column names new
Relabel(r, old, new) ==
    [c \in Range(new) |-> r[old[CHOOSE p \in DOMAIN new : new[p] = c]]]

\* df.columns = new
SetColumns(df, new) ==
    [df EXCEPT !.cols = new,
               !.rows = [i \in 1..NRows(df) |-> Relabel(df.rows[i], df.cols, new)]]

\* df.rename_geometry(name)
RenameGeometry(df, name) ==
    [SetColumns(df, [p \in DOMAIN df.cols |->
                        IF df.cols[p] = df.gcol THEN name ELSE df.cols[p]])
        EXCEPT !.gcol = name]

\* df[c] = cells: overwrite the column in place, or append it
SetColumn(df, c, cells) ==
    [df EXCEPT !.cols = IF c \in Range(df.cols) THEN df.cols ELSE Append(df.cols, c),
               !.rows = [i \in 1..NRows(df) |->
                            [x \in DOMAIN df.rows[i] \cup {c} |->
                                IF x = c THEN cells[i] ELSE df.rows[i][x]]]]

\* df[columns] / df.reindex(columns=columns): missing columns are NaN
Reindex(df, columns) ==
    [df EXCEPT !.cols = columns,
               !.rows = [i \in 1..NRows(df) |->
                            [c \in Range(columns) |->
                                IF c \in DOMAIN df.rows[i] THEN df.rows[i][c] ELSE NaN]]]

\* row labels that are left as they are
ResetIndexNothing(df) == df

\* df.reset_index(drop=True)
ResetIndex(df) == [df EXCEPT !.index = Iota(NRows(df))]

\* pandas' suffixing rule of merge: a suffix on the names both sides have
Suffixed(cols, other, suffix) ==
    [p \in DOMAIN cols |->
        IF cols[p] \in Range(other) THEN cols[p] \o suffix ELSE cols[p]]

\* the row of a merge: the left cells under the left names, then the right
MergeRow(l, lcols, lnew, r, rcols, rnew) ==
    [c \in Range(lnew) \cup Range(rnew) |->
        IF c \in Range(lnew) THEN Relabel(l, lcols, lnew)[c]
        ELSE Relabel(r, rcols, rnew)[c]]

\* left.merge(right, left_on=key, right_index=True, suffixes=(ls, rs)):
\* inner join of each left row with the right row whose label is the row's
\* key, in the order of the left rows, under the labels of the left rows
MergeOnKey(left, right, key, ls, rs) ==
    LET lnew == Suffixed(left.cols, right.cols, ls)
        rnew == Suffixed(right.cols, left.cols, rs)
        Hit(i) == {j \in 1..NRows(right) : Num(right.index[j]) = left.rows[i][key]}
        K == {i \in 1..NRows(left) : Hit(i) # {}}
        Row(i) == MergeRow(left.rows[i], left.cols, lnew,
                           right.rows[CHOOSE j \in Hit(i) : TRUE], right.cols, rnew)
    IN  [cols |-> lnew \o rnew, gcol |-> left.gcol,
         index |-> KeepAt(left.index, K, 1),
         rows |-> KeepAt([i \in 1..NRows(left) |->
                             IF i \in K THEN Row(i) ELSE left.rows[i]], K, 1),
         crs |-> left.crs, err |-> "", series |-> FALSE]

\* a merge of empty tables with the two suffixes exchanged
MergeEmptySwapped(left, right, ls, rs) ==
    LET lnew == Suffixed(left.cols, right.cols, rs)
        rnew == Suffixed(right.cols, left.cols, ls)
    IN  [cols |-> lnew \o rnew, gcol |-> left.gcol, index |-> <<>>,
         rows |-> <<>>, crs |-> left.crs, err |-> "", series |-> FALSE]

\* left.iloc[:0].merge(right.iloc[:0], left_index=True, right_index=True,
\* suffixes=(ls, rs)): the merged columns, no row
MergeEmpty(left, right, ls, rs) ==
    LET lnew == Suffixed(left.cols, right.cols, ls)
        rnew == Suffixed(right.cols, left.cols, rs)
    IN  [cols |-> lnew \o rnew, gcol |-> left.gcol, index |-> <<>>,
         rows |-> <<>>, crs |-> left.crs, err |-> "", series |-> FALSE]

\* pd.concat([a, b], ignore_index=True, sort=False): the columns of a, then
\* the new ones of b; the metadata (geometry column, crs) of the first table
Concat(a, b) ==
    LET cols == a.cols \o SelectSeq(b.cols, LAMBDA c : c \notin Range(a.cols))
        Wide(r) == [c \in Range(cols) |-> IF c \in DOMAIN r THEN r[c] ELSE NaN]
    IN  [cols |-> cols, gcol |-> a.gcol,
         index |-> Iota(NRows(a) + NRows(b)),
         rows |-> [i \in 1..NRows(a) |-> Wide(a.rows[i])]
                    \o [i \in 1..NRows(b) |-> Wide(b.rows[i])],
         crs |-> a.crs, err |-> "", series |-> FALSE]

\* GeoDataFrame(df, geometry=series, crs=crs): the series, aligned on the
\* row labels, becomes the column `geometry` (overwritten where it is, or
\* appended) and the active geometry
SetGeometry(df, gindex, geoms, crs) ==
    LET At(i) == {p \in DOMAIN gindex : gindex[p] = df.index[i]}
        cells == [i \in 1..NRows(df) |->
                    IF At(i) = {} THEN NaN ELSE geoms[CHOOSE p \in At(i) : TRUE]]
    IN  [SetColumn(df, "geometry", cells) EXCEPT !.gcol = "geometry", !.crs = crs]

\* ------------------------------------------------------------------------
\* overlay.py
\* ------------------------------------------------------------------------

_ensure_geometry_column(df) ==
    IF df.gcol # "geometry"
    THEN RenameGeometry(IF "geometry" \in Range(df.cols)
                        THEN Drop(df, "geometry") ELSE df,
                        "geometry")
    ELSE df

\* df2.sindex.query(df1.geometry, predicate="intersects", sort=True): the
\* pairs <<i, j>> of 0-based row positions whose geometries intersect, by
\* ascending i, then ascending j
RECURSIVE QueryFrom(_, _, _, _)
QueryFrom(g1, g2, i, j) ==
    IF i > Len(g1) THEN <<>>
    ELSE IF j > Len(g2) THEN QueryFrom(g1, g2, i + 1, 1)
    ELSE (IF Intersects(g1[i], g2[j]) THEN << <<i - 1, j - 1>> >> ELSE <<>>)
         \o QueryFrom(g1, g2, i, j + 1)

Query(a, b) == QueryFrom(GeomCol(a), GeomCol(b), 1, 1)

\* computed geometries that are left as they are
RepairNothing(geoms) == geoms

\* intersections.loc[poly_ix] = intersections[poly_ix].make_valid()
RepairPolygons(geoms) ==
    [p \in DOMAIN geoms |->
        IF GeomTypeOf(geoms[p]) \in POLYGON_GEOM_TYPES
        THEN MakeValid(geoms[p]) ELSE geoms[p]]

\* an empty result that leaves the geometry column where the merge put it
EmptyIntersectionUnordered(a, b, keys) ==
    LET right == Drop(NoRows(b), b.gcol)
        merged == MergeEmpty(NoRows(a), right, "_1", "_2")
    IN  IF right.err # "" THEN right
        ELSE IF keys
        THEN SetColumn(SetColumn(merged, "__idx1", <<>>), "__idx2", <<>>)
        ELSE merged

\* the branch of _overlay_intersection for no candidate pair, which is also
\* the fast path of overlay but for the two key columns
EmptyIntersection(a, b, keys) ==
    LET right == Drop(NoRows(b), b.gcol)
        merged == MergeEmpty(NoRows(a), right, "_1", "_2")
        keyed == IF keys
                 THEN SetColumn(SetColumn(merged, "__idx1", <<>>), "__idx2", <<>>)
                 ELSE merged
    IN  IF right.err # "" THEN right
        ELSE IF a.gcol \notin Range(keyed.cols) THEN Failed("KeyError")
        ELSE Reindex(keyed, Without(keyed.cols, a.gcol) \o <<a.gcol>>)

_overlay_intersection(a, b) ==
    LET pairs == Query(a, b)
        n == Len(pairs)
        left == [p \in 1..n |-> GeomCol(a)[pairs[p][1] + 1]]
        right == [p \in 1..n |-> GeomCol(b)[pairs[p][2] + 1]]
        intersections ==
            RepairPolygons([p \in 1..n |-> Intersection(left[p], right[p])])
        pairs_intersect ==
            [Frame(<<"__idx1", "__idx2">>, "", Iota(n),
                   [p \in 1..n |-> [c \in {"__idx1", "__idx2"} |->
                       IF c = "__idx1" THEN Num(pairs[p][1]) ELSE Num(pairs[p][2])]],
                   "") EXCEPT !.gcol = ""]
        r1 == ResetIndex(a)
        r2 == ResetIndex(b)
        m1 == MergeOnKey(pairs_intersect, Drop(r1, r1.gcol), "__idx1", "_x", "_y")
        m2 == MergeOnKey(m1, Drop(r2, r2.gcol), "__idx2", "_1", "_2")
    IN  IF n > 0
        THEN SetGeometry(m2, Iota(n), intersections, a.crs)
        ELSE EmptyIntersection(a, b, TRUE)

\* np.unique(idx1, return_index=True)[1]: the 0-based position of the first
\* occurrence of each value of idx1 (idx1 is ascending)
FirstPositions(idx1) ==
    SelectSeq(Iota(Len(idx1)),
              LAMBDA p : \A q \in 1..p : idx1[q] # idx1[p + 1])

\* np.split(s, cuts): the pieces of s between the 0-based positions cuts
RECURSIVE Split(_, _, _)
Split(s, from, cuts) ==
    IF cuts = <<>> THEN <<SubSeq(s, from + 1, Len(s))>>
    ELSE <<SubSeq(s, from + 1, Head(cuts))>> \o Split(s, Head(cuts), Tail(cuts))

\* the pieces of idx2 handed to the rows of df1 from the first row on
NeighboursInOrder(idx, n, idx1_unique, idx2_split) ==
    [i \in 1..(n - idx) |-> IF i <= Len(idx2_split) THEN idx2_split[i] ELSE <<>>]

\* sidx: for each row position of df1 the next piece of idx2 when the
\* position is among the values of idx1, else no neighbour
RECURSIVE Neighbours(_, _, _, _)
Neighbours(idx, n, idx1_unique, idx2_split) ==
    IF idx >= n THEN <<>>
    ELSE IF idx \in idx1_unique
         THEN <<Head(idx2_split)>>
              \o Neighbours(idx + 1, n, idx1_unique, Tail(idx2_split))
         ELSE << <<>> >> \o Neighbours(idx + 1, n, idx1_unique, idx2_split)

\* reduce(lambda x, y: x.difference(y), [geom] + neighbours)
RECURSIVE Reduce(_, _)
Reduce(x, ys) == IF ys = <<>> THEN x ELSE Reduce(Difference(x, Head(ys)), Tail(ys))

\* lines 86-92: the positions of the rows of b to subtract from each row of a
sidx(a, b) ==
    LET pairs == Query(a, b)
        idx1 == [p \in DOMAIN pairs |-> pairs[p][1]]
        idx2 == [p \in DOMAIN pairs |-> pairs[p][2]]
        idx1_unique_indices == FirstPositions(idx1)
        idx2_split == Split(idx2, 0, IF idx1_unique_indices = <<>> THEN <<>>
                                     ELSE Tail(idx1_unique_indices))
    IN  Neighbours(0, NRows(a), Range(idx1), idx2_split)

\* lines 94-99: the fold of each row of a with its neighbours
new_g(a, b, neighbours) ==
    [i \in 1..NRows(a) |->
        Reduce(GeomCol(a)[i],
               [q \in DOMAIN neighbours[i] |-> GeomCol(b)[neighbours[i][q] + 1]])]

_overlay_difference(a, b) ==
    LET differences == RepairPolygons(new_g(a, b, sidx(a, b)))
        keep == {i \in 1..NRows(a) : ~is_empty(differences[i])}
        dfdiff == TakeRows(a, keep)
    IN  SetColumn(dfdiff, dfdiff.gcol, KeepAt(differences, keep, 1))

\* a concatenation that leaves the columns of the difference as they are
IdentityUnaligned(dfintersection, dfdifference) ==
    IF dfintersection.err # "" THEN dfintersection
    ELSE IF "geometry" \notin Range(dfintersection.cols) THEN Failed("ValueError")
    ELSE Reindex(Concat(dfintersection, dfdifference),
                 Without(dfintersection.cols, "geometry") \o <<"geometry">>)

\* lines 115-130 of _overlay_identity, from the two tables it has built
IdentityOf(dfintersection, dfdifference) ==
    LET new_columns == [p \in DOMAIN dfdifference.cols |->
                           IF dfdifference.cols[p] \in Range(dfintersection.cols)
                           THEN dfdifference.cols[p]
                           ELSE dfdifference.cols[p] \o "_1"]
    IN  IF dfintersection.err # "" THEN dfintersection
        ELSE IF "geometry" \notin Range(dfintersection.cols) THEN Failed("ValueError")
        ELSE Reindex(Concat(dfintersection, SetColumns(dfdifference, new_columns)),
                     Without(dfintersection.cols, "geometry") \o <<"geometry">>)

_overlay_identity(a, b) ==
    IdentityOf(_overlay_intersection(a, b),
               _ensure_geometry_column(_overlay_difference(a, b)))

\* dfdiff1.merge(dfdiff2, on=["__idx1", "__idx2"], how="outer",
\* suffixes=("_1", "_2")): the rows of the left with the right rows of the
\* same keys (missing where there is none), then the right rows no left row
\* matches; the keys of the left ascend and precede the NaN key of the right
OuterMerge(left, right) ==
    LET keys == <<"__idx1", "__idx2">>
        rcols == SelectSeq(right.cols, LAMBDA c : c \notin Range(keys))
        lnew == Suffixed(left.cols, rcols, "_1")
        rnew == Suffixed(rcols, left.cols, "_2")
        Same(l, r) == \A c \in Range(keys) : l[c] = r[c]
        Match(i) == {j \in 1..NRows(right) : Same(left.rows[i], right.rows[j])}
        alone == {j \in 1..NRows(right) :
                     \A i \in 1..NRows(left) : ~Same(left.rows[i], right.rows[j])}
        none == [c \in Range(rcols) |-> NaN]
        RightOnly(r) ==
            [c \in Range(lnew) \cup Range(rnew) |->
                IF c \in Range(keys) THEN r[c]
                ELSE IF c \in Range(rnew) THEN Relabel(r, rcols, rnew)[c]
                ELSE NaN]
        leftRows == [i \in 1..NRows(left) |->
                        MergeRow(left.rows[i], left.cols, lnew,
                                 IF Match(i) = {} THEN none
                                 ELSE [c \in Range(rcols) |->
                                          right.rows[CHOOSE j \in Match(i) : TRUE][c]],
                                 rcols, rnew)]
        rightRows == KeepAt([j \in 1..NRows(right) |-> RightOnly(right.rows[j])],
                            alone, 1)
    IN  [cols |-> lnew \o rnew, gcol |-> left.gcol,
         index |-> Iota(Len(leftRows) + Len(rightRows)),
         rows |-> leftRows \o rightRows,
         crs |-> left.crs, err |-> "", series |-> FALSE]

\* keys that number the rows in both key columns
WithSharedKeys(dfdiff, own, other) ==
    SetColumn(SetColumn(dfdiff, own, [i \in 1..NRows(dfdiff) |-> Num(i - 1)]),
              other, [i \in 1..NRows(dfdiff) |-> Num(i - 1)])

\* lines 137-140: dfdiff[own] = range(len(dfdiff)); dfdiff[other] = np.nan
WithKeys(dfdiff, own, other) ==
    SetColumn(SetColumn(dfdiff, own, [i \in 1..NRows(dfdiff) |-> Num(i - 1)]),
              other, [i \in 1..NRows(dfdiff) |-> NaN])

\* the geometry of each row of the merge is geometry_1 alone
SymmetricGeometryLeftOnly(dfsym, crs) ==
    SetGeometry(ResetIndex(Drop(Drop(dfsym, "geometry_1"), "geometry_2")),
                Iota(NRows(dfsym)),
                [i \in 1..NRows(dfsym) |-> dfsym.rows[i]["geometry_1"]],
                crs)

\* lines 148-156: the geometry of each row of the merge is geometry_1, or
\* geometry_2 where that is missing
SymmetricGeometry(dfsym, crs) ==
    SetGeometry(ResetIndex(Drop(Drop(dfsym, "geometry_1"), "geometry_2")),
                Iota(NRows(dfsym)),
                [i \in 1..NRows(dfsym) |->
                    IF isna(dfsym.rows[i]["geometry_1"])
                    THEN dfsym.rows[i]["geometry_2"]
                    ELSE dfsym.rows[i]["geometry_1"]],
                crs)

_overlay_symmetric_diff(a, b) ==
    SymmetricGeometry(
        OuterMerge(
            _ensure_geometry_column(WithKeys(_overlay_difference(a, b), "__idx1", "__idx2")),
            _ensure_geometry_column(WithKeys(_overlay_difference(b, a), "__idx2", "__idx1"))),
        a.crs)

\* lines 165-169: keep geometry column last
GeometryColumnLast(dfunion) ==
    IF dfunion.err # "" THEN dfunion
    ELSE IF "geometry" \notin Range(dfunion.cols) THEN Failed("ValueError")
    ELSE Reindex(dfunion, Without(dfunion.cols, "geometry") \o <<"geometry">>)

\* a concatenation with the symmetric difference first
UnionSymmetricFirst(dfinter, dfsym) ==
    IF dfinter.err # "" THEN dfinter ELSE Concat(dfsym, dfinter)

\* line 164, from the two tables _overlay_union has built
UnionOf(dfinter, dfsym) ==
    IF dfinter.err # "" THEN dfinter ELSE Concat(dfinter, dfsym)

_overlay_union(a, b) ==
    GeometryColumnLast(UnionOf(_overlay_intersection(a, b),
                               _overlay_symmetric_diff(a, b)))

\* the family of geom_type, {} when it is in none
FamilyOf(t) ==
    IF t \in POLYGON_GEOM_TYPES THEN POLYGON_GEOM_TYPES
    ELSE IF t \in LINE_GEOM_TYPES THEN LINE_GEOM_TYPES
    ELSE IF t \in POINT_GEOM_TYPES THEN POINT_GEOM_TYPES
    ELSE {}

\* the warning of _collection_extract, citing n dropped geometries
DropWarning(n) == [w |-> "dropped", n |-> n]

\* _crs_mismatch_warn
CrsWarning == [w |-> "crs", n |-> 0]

\* a dissolve that leaves the collection as it is
DissolveNothing(g, geom_types) == g

\* lines 390 and 395-402: the parts of the collection g outside geom_types
\* are set to None, and the dissolve collects what is left
Dissolve(g, geom_types) ==
    Geom({a \in g.atoms : AtomType(a) \in geom_types})

\* _collection_extract: [df |-> the filtered table, warns |-> its warnings].
\* Each GeometryCollection row is exploded into its parts, the parts outside
\* geom_types are set to None and the row gets the dissolve of what is left;
\* then the rows outside geom_types are filtered out.
_collection_extract(df, gtype, keep_geom_type_warning) ==
    LET geom_types == FamilyOf(gtype)
        is_collection == {i \in 1..NRows(df) : GeomTypes(df)[i] = "GeometryCollection"}
        Parts(i) == df.rows[i][df.gcol].atoms
        Nulled(i) == {a \in Parts(i) : AtomType(a) \notin geom_types}
        orig_num_geoms_exploded ==
            SumSeq([i \in 1..NRows(df) |->
                       IF i \in is_collection THEN Cardinality(Parts(i)) ELSE 0])
        isna_sum ==
            SumSeq([i \in 1..NRows(df) |->
                       IF i \in is_collection THEN Cardinality(Nulled(i)) ELSE 0])
        num_dropped_collection ==
            IF is_collection # {} THEN orig_num_geoms_exploded - isna_sum ELSE 0
        dissolved == [i \in 1..NRows(df) |->
                         IF i \in is_collection
                         THEN Dissolve(df.rows[i][df.gcol], geom_types)
                         ELSE df.rows[i][df.gcol]]
        collected == IF is_collection # {}
                     THEN SetColumn(df, df.gcol, dissolved) ELSE df
        orig_num_geoms == NRows(collected)
        filtered == TakeRows(collected,
                             {i \in 1..NRows(collected) :
                                 GeomTypes(collected)[i] \in geom_types})
        num_dropped == orig_num_geoms - NRows(filtered)
    IN  IF geom_types = {} THEN [df |-> Failed("TypeError"), warns |-> <<>>]
        ELSE IF df.gcol \notin Range(df.cols)
        THEN [df |-> Failed("AttributeError"), warns |-> <<>>]
        ELSE [df |-> filtered,
              warns |-> IF (num_dropped > 0 \/ num_dropped_collection > 0)
                           /\ keep_geom_type_warning
                        THEN <<DropWarning(num_dropped + num_dropped_collection)>>
                        ELSE <<>>]

\* ---- overlay ----

allowed_hows ==
    {"intersection", "union", "identity", "symmetric_difference", "difference"}

\* the locals of one call of overlay, as a record
Call(a, b, h, k, m) ==
    [df1 |-> a, df2 |-> b, how |-> h, keep_geom_type |-> k, make_valid |-> m,
     pc |-> "call", geom_type |-> "", w1 |-> Unset, w2 |-> Unset,
     result |-> Unset, raw |-> Unset, err |-> "", warns |-> <<>>,
     queries |-> 0, fast |-> FALSE]

\* a filter that is applied whatever keep_geom_type is
KeepGeomTypeAlways(c) == TRUE

\* a warning that is emitted for an explicit True as well
KeepGeomTypeWarningAlways(c) == c.keep_geom_type # "False"

\* keep_geom_type and keep_geom_type_warning after lines 280-284
KeepGeomType(c) == c.keep_geom_type # "False"

KeepGeomTypeWarning(c) == c.keep_geom_type = "None"

Raise(c, e) == [c EXCEPT !.pc = "error", !.err = e]

\* a family check that lets every table pass
MixedNever(df) == FALSE

\* sum([poly_check, lines_check, points_check]) > 1
Mixed(df) ==
    Cardinality({F \in {POLYGON_GEOM_TYPES, LINE_GEOM_TYPES, POINT_GEOM_TYPES} :
                    \E i \in 1..NRows(df) : GeomTypes(df)[i] \in F}) > 1

\* df.total_bounds
TotalBounds(df) == BoxOf(UNION {GeomCol(df)[i].atoms : i \in 1..NRows(df)})

\* the test of lines 297-300
BoxesDisjoint(a, b) ==
    LET box_gdf1 == TotalBounds(a)
        box_gdf2 == TotalBounds(b)
    IN  ~((BoxLe(box_gdf1, 1, box_gdf2, 3) /\ BoxLe(box_gdf2, 1, box_gdf1, 3))
          /\ (BoxLe(box_gdf1, 2, box_gdf2, 4) /\ BoxLe(box_gdf2, 2, box_gdf1, 4)))

\* a fast path for every how
FastPathAnyHow(c) == BoxesDisjoint(c.df1, c.df2)

\* the fast path is for how = "intersection" alone
FastPath(c) == c.how = "intersection" /\ BoxesDisjoint(c.df1, c.df2)

\* checks that look at the inputs before they look at how
ValidateInputsFirst(c) ==
    LET warned == IF c.df1.crs # c.df2.crs
                  THEN [c EXCEPT !.warns = Append(c.warns, CrsWarning)] ELSE c
        empty == EmptyIntersection(c.df1, c.df2, FALSE)
    IN  IF c.df1.series \/ c.df2.series THEN Raise(c, "NotImplementedError")
        ELSE IF c.how \notin allowed_hows THEN Raise(warned, "ValueError")
        ELSE IF Mixed(c.df1) THEN Raise(warned, "NotImplementedError df1")
        ELSE IF Mixed(c.df2) THEN Raise(warned, "NotImplementedError df2")
        ELSE IF FastPath(c)
        THEN IF empty.err # "" THEN Raise(warned, empty.err)
             ELSE [warned EXCEPT !.pc = "done", !.fast = TRUE, !.result = empty]
        ELSE [warned EXCEPT !.pc = "validated"]

\* checks for which two different CRS are an error
ValidateSameCrs(c) ==
    LET empty == EmptyIntersection(c.df1, c.df2, FALSE)
    IN  IF c.how \notin allowed_hows THEN Raise(c, "ValueError")
        ELSE IF c.df1.series \/ c.df2.series THEN Raise(c, "NotImplementedError")
        ELSE IF c.df1.crs # c.df2.crs THEN Raise(c, "ValueError")
        ELSE IF Mixed(c.df1) THEN Raise(c, "NotImplementedError df1")
        ELSE IF Mixed(c.df2) THEN Raise(c, "NotImplementedError df2")
        ELSE IF FastPath(c)
        THEN IF empty.err # "" THEN Raise(c, empty.err)
             ELSE [c EXCEPT !.pc = "done", !.fast = TRUE, !.result = empty]
        ELSE [c EXCEPT !.pc = "validated"]

\* lines 260-309: the checks of the arguments, and the fast path
Validate(c) ==
    LET warned == IF c.df1.crs # c.df2.crs
                  THEN [c EXCEPT !.warns = Append(c.warns, CrsWarning)] ELSE c
        empty == EmptyIntersection(c.df1, c.df2, FALSE)
    IN  IF c.how \notin allowed_hows THEN Raise(c, "ValueError")
        ELSE IF c.df1.series \/ c.df2.series THEN Raise(c, "NotImplementedError")
        ELSE IF Mixed(c.df1) THEN Raise(warned, "NotImplementedError df1")
        ELSE IF Mixed(c.df2) THEN Raise(warned, "NotImplementedError df2")
        ELSE IF FastPath(c)
        THEN IF empty.err # "" THEN Raise(warned, empty.err)
             ELSE [warned EXCEPT !.pc = "done", !.fast = TRUE, !.result = empty]
        ELSE [warned EXCEPT !.pc = "validated"]

\* the number of invalid geometries of df: mask.sum()
InvalidCount(df) ==
    Cardinality({i \in 1..NRows(df) : ~is_valid(GeomCol(df)[i])})

\* a repair that lets invalid polygons pass when make_valid is False
_make_validUnchecked(df, mv) ==
    LET all_polygons == \A i \in 1..NRows(df) : GeomTypes(df)[i] \in POLYGON_GEOM_TYPES
        repaired == SetColumn(df, df.gcol,
                              [i \in 1..NRows(df) |-> MakeValid(GeomCol(df)[i])])
    IN  IF all_polygons /\ mv /\ InvalidCount(df) > 0
        THEN _collection_extract(repaired, "Polygon", FALSE).df
        ELSE df

\* overlay._make_valid, lines 312-332
_make_valid(df, mv) ==
    LET all_polygons == \A i \in 1..NRows(df) : GeomTypes(df)[i] \in POLYGON_GEOM_TYPES
        repaired == SetColumn(df, df.gcol,
                              [i \in 1..NRows(df) |-> MakeValid(GeomCol(df)[i])])
    IN  IF ~all_polygons THEN df
        ELSE IF mv
        THEN IF InvalidCount(df) > 0
             THEN _collection_extract(repaired, "Polygon", FALSE).df
             ELSE df
        ELSE IF InvalidCount(df) > 0 THEN Failed("ValueError") ELSE df

\* a repair that works on the caller's tables, not on copies of them
RepairInPlace(c) ==
    LET v1 == _make_valid(c.df1, c.make_valid)
        v2 == _make_valid(c.df2, c.make_valid)
        typed == IF KeepGeomType(c)
                 THEN [c EXCEPT !.geom_type = GeomTypes(c.df1)[1]] ELSE c
    IN  IF KeepGeomType(c) /\ NRows(c.df1) = 0 THEN Raise(c, "IndexError")
        ELSE IF v1.err # "" THEN Raise(typed, v1.err)
        ELSE IF v2.err # "" THEN Raise([typed EXCEPT !.w1 = v1, !.df1 = v1], v2.err)
        ELSE [typed EXCEPT !.pc = "repaired", !.w1 = v1, !.w2 = v2,
                           !.df1 = v1, !.df2 = v2]

\* a repair that takes the geometry type from the first row of df2
RepairTypeOfB(c) ==
    LET v1 == _make_valid(c.df1, c.make_valid)
        v2 == _make_valid(c.df2, c.make_valid)
        typed == IF KeepGeomType(c)
                 THEN [c EXCEPT !.geom_type =
                          IF NRows(c.df2) = 0 THEN GeomTypes(c.df1)[1]
                          ELSE GeomTypes(c.df2)[1]]
                 ELSE c
    IN  IF KeepGeomType(c) /\ NRows(c.df1) = 0 THEN Raise(c, "IndexError")
        ELSE IF v1.err # "" THEN Raise(typed, v1.err)
        ELSE IF v2.err # "" THEN Raise([typed EXCEPT !.w1 = v1], v2.err)
        ELSE [typed EXCEPT !.pc = "repaired", !.w1 = v1, !.w2 = v2]

\* lines 334-339: the geometry type of the first row of df1, and the repair
\* (_make_valid works on df.copy(), line 313: the results are new locals)
Repair(c) ==
    LET v1 == _make_valid(c.df1, c.make_valid)
        v2 == _make_valid(c.df2, c.make_valid)
        typed == IF KeepGeomType(c)
                 THEN [c EXCEPT !.geom_type = GeomTypes(c.df1)[1]] ELSE c
    IN  IF KeepGeomType(c) /\ NRows(c.df1) = 0 THEN Raise(c, "IndexError")
        ELSE IF v1.err # "" THEN Raise(typed, v1.err)
        ELSE IF v2.err # "" THEN Raise([typed EXCEPT !.w1 = v1], v2.err)
        ELSE [typed EXCEPT !.pc = "repaired", !.w1 = v1, !.w2 = v2]

\* the number of spatial-index queries of the builders of how
QueriesOf(h) ==
    CASE h = "difference" -> 1
      [] h = "intersection" -> 1
      [] h = "symmetric_difference" -> 1 + 1
      [] h = "union" -> 1 + (1 + 1)
      [] h = "identity" -> 1 + 1
      [] OTHER -> 0

\* lines 343-352
Dispatch(h, a, b) ==
    CASE h = "difference" -> _overlay_difference(a, b)
      [] h = "intersection" -> _overlay_intersection(a, b)
      [] h = "symmetric_difference" -> _overlay_symmetric_diff(a, b)
      [] h = "union" -> _overlay_union(a, b)
      [] h = "identity" -> _overlay_identity(a, b)

\* lines 341-355: the builder of how, and the drop of the two key columns
Compute(c) ==
    LET built == Dispatch(c.how, c.w1, c.w2)
        dropped == IF c.how = "difference" THEN built
                   ELSE Drop(Drop(built, "__idx1"), "__idx2")
        counted == [c EXCEPT !.queries = c.queries + QueriesOf(c.how)]
    IN  IF built.err # "" THEN Raise(counted, built.err)
        ELSE IF dropped.err # "" THEN Raise(counted, dropped.err)
        ELSE [counted EXCEPT !.pc = "computed", !.raw = dropped]

\* lines 357-361: the geometry type filter and the reset of the row labels
Finish(c) ==
    LET ex == _collection_extract(c.raw, c.geom_type, KeepGeomTypeWarning(c))
        warned == [c EXCEPT !.warns = c.warns \o ex.warns]
    IN  IF ~KeepGeomType(c) THEN [c EXCEPT !.pc = "done", !.result = ResetIndex(c.raw)]
        ELSE IF ex.df.err # "" THEN Raise(c, ex.df.err)
        ELSE [warned EXCEPT !.pc = "done", !.result = ResetIndex(ex.df)]

\* one step of overlay from the locals c
Step(c) ==
    CASE c.pc = "call" -> Validate(c)
      [] c.pc = "validated" -> Repair(c)
      [] c.pc = "repaired" -> Compute(c)
      [] c.pc = "computed" -> Finish(c)
      [] OTHER -> c

\* overlay(df1, df2, how, keep_geom_type, make_valid): the locals when the
\* call returns or raises
overlay(a, b, h, k, m) == Step(Step(Step(Step(Call(a, b, h, k, m)))))

\* ------------------------------------------------------------------------
\* The calls the model explores
\* ------------------------------------------------------------------------

\* the valid polygons of the input rows: s3, s1+s2, s1+s3 and s1+s9
GeomPool ==
    {Geom({"s3"}), Geom({"s1", "s2"}), Geom({"s1", "s3"}), Geom({"s1", "s9"})}

\* polygons, with an invalid one that make_valid turns into the polygon s9
\* and the line l9, and an invalid one that make_valid turns into the line l9
InvalidPool ==
    {Geom({"s3"}), Geom({"s1", "s9"}), InvalidPolygon({"s9", "l9"}),
     InvalidPolygon({"l9"})}

\* geometries of the three families
FamilyPool == {Geom({"s1", "s2"}), Geom({"e23"}), Geom({"e12"}), Geom({"p1"})}

\* a missing geometry, an invalid polygon that make_valid turns into s1+s2,
\* and a valid polygon; a table with a missing geometry is not repaired
MissingPool == {NaN, InvalidPolygon({"s1", "s2"}), Geom({"s1", "s9"})}

\* a polygon, a line that it touches, and a polygon away from both, for the
\* tables that mix families
MixedPool == {Geom({"s1", "s2"}), Geom({"e23"}), Geom({"s9"})}

\* the geometries of the calls that vary the schemas
SchemaPool == {Geom({"s3"}), Geom({"s9"}), Geom({"s1", "s2"}), Geom({"s1", "s9"})}

\* the sequences over S of length n
RECURSIVE SeqsOfLen(_, _)
SeqsOfLen(S, n) ==
    IF n = 0 THEN {<<>>}
    ELSE {Append(s, x) : s \in SeqsOfLen(S, n - 1), x \in S}

\* the pairs of sequences over S of at most n elements together
RowPairs(S, n) ==
    UNION {SeqsOfLen(S, i) \X SeqsOfLen(S, j) :
              <<i, j>> \in {q \in (0..n) \X (0..n) : q[1] + q[2] <= n}}

\* the schemas of df1: the geometry column `geometry` first; a geometry
\* column of another name, last, with labels other than 0..n-1; a geometry
\* column of another name beside a passive column named `geometry`
Schemas1 == {"plain", "named", "other"}

\* the schemas of df2: `geometry` first; a geometry column of another name
\* and another CRS
Schemas2 == {"plain", "named"}

Cols1(v) == CASE v = "plain" -> <<"geometry", "a", "k">>
              [] v = "named" -> <<"a", "k", "geom">>
              [] OTHER -> <<"geom", "a", "geometry">>

Cols2(v) == CASE v = "plain" -> <<"geometry", "b", "k">>
              [] OTHER -> <<"b", "k", "shape">>

\* the table of the geometries gs: the attribute values tell the column,
\* the side and the row apart
Table(cols, gcol, gs, side, custom, crs) ==
    Frame(cols, gcol,
          [i \in DOMAIN gs |-> IF custom THEN 9 - 2 * i ELSE i - 1],
          [i \in DOMAIN gs |->
              [c \in Range(cols) |->
                  IF c = gcol THEN gs[i]
                  ELSE IF c = "geometry" THEN Geom({"p1"})
                  ELSE IF c = "k" THEN Num(100 * side + 20 + i)
                  ELSE Num(100 * side + 10 + i)]],
          crs)

Table1(v, gs) ==
    Table(Cols1(v), IF v = "plain" THEN "geometry" ELSE "geom", gs, 1,
          v = "named", "EPSG:4326")

Table2(v, gs) ==
    Table(Cols2(v), IF v = "plain" THEN "geometry" ELSE "shape", gs, 2,
          FALSE, IF v = "plain" THEN "EPSG:4326" ELSE "EPSG:3857")

\* a GeoSeries of the geometries gs
Series(gs) == [Table(<<"geometry">>, "geometry", gs, 1, FALSE, "EPSG:4326")
                  EXCEPT !.series = TRUE]

Hows == allowed_hows \cup {"erase"}

KeepValues == {"None", "True", "False"}

\* the locals of the call in progress
Cur ==
    [df1 |-> df1, df2 |-> df2, how |-> how, keep_geom_type |-> keep_geom_type,
     make_valid |-> make_valid, pc |-> pc, geom_type |-> geom_type,
     w1 |-> w1, w2 |-> w2, result |-> result, raw |-> raw, err |-> err,
     warns |-> warns, queries |-> queries, fast |-> fast]

Becomes(c) ==
    /\ df1' = c.df1
    /\ df2' = c.df2
    /\ how' = c.how
    /\ keep_geom_type' = c.keep_geom_type
    /\ make_valid' = c.make_valid
    /\ pc' = c.pc
    /\ geom_type' = c.geom_type
    /\ w1' = c.w1
    /\ w2' = c.w2
    /\ result' = c.result
    /\ raw' = c.raw
    /\ err' = c.err
    /\ warns' = c.warns
    /\ queries' = c.queries
    /\ fast' = c.fast

\* the variables hold the locals c
Holds(c) ==
    /\ df1 = c.df1
    /\ df2 = c.df2
    /\ how = c.how
    /\ keep_geom_type = c.keep_geom_type
    /\ make_valid = c.make_valid
    /\ pc = c.pc
    /\ geom_type = c.geom_type
    /\ w1 = c.w1
    /\ w2 = c.w2
    /\ result = c.result
    /\ raw = c.raw
    /\ err = c.err
    /\ warns = c.warns
    /\ queries = c.queries
    /\ fast = c.fast

\* valid polygons, with the plain schemas
InitPlain ==
    \E r \in RowPairs(GeomPool, MaxRows), h \in Hows, k \in KeepValues :
        Holds(Call(Table1("plain", r[1]), Table2("plain", r[2]), h, k, TRUE))

\* invalid polygons and both values of make_valid, with fewer rows
InitInvalid ==
    \E r \in RowPairs(InvalidPool, MaxRows - 1), h \in Hows, k \in KeepValues,
       m \in BOOLEAN :
        Holds(Call(Table1("plain", r[1]), Table2("plain", r[2]), h, k, m))

\* polygons, lines and points, with fewer rows
InitFamilies ==
    \E r \in RowPairs(FamilyPool, MaxRows - 1), h \in Hows, k \in KeepValues :
        Holds(Call(Table1("plain", r[1]), Table2("plain", r[2]), h, k, TRUE))

\* tables with missing geometries and invalid polygons, make_valid either way
InitMissing ==
    \E r \in RowPairs(MissingPool, MaxRows), h \in allowed_hows, k \in KeepValues,
       m \in BOOLEAN :
        Holds(Call(Table1("plain", r[1]), Table2("plain", r[2]), h, k, m))

\* tables of one or two families, each of fewer rows than MaxRows
InitMixed ==
    \E n1 \in 0..(MaxRows - 1), n2 \in 0..(MaxRows - 1), h \in allowed_hows,
       k \in KeepValues :
        \E g1 \in SeqsOfLen(MixedPool, n1), g2 \in SeqsOfLen(MixedPool, n2) :
            Holds(Call(Table1("plain", g1), Table2("plain", g2), h, k, TRUE))

\* the other schemas, with fewer rows and valid geometries
InitSchemas ==
    \E r \in RowPairs(SchemaPool, MaxRows - 1),
       v \in (Schemas1 \X Schemas2) \ {<<"plain", "plain">>},
       h \in Hows, k \in KeepValues :
        Holds(Call(Table1(v[1], r[1]), Table2(v[2], r[2]), h, k, TRUE))

\* a GeoSeries in the place of a table
InitSeries ==
    \E g \in SchemaPool, h \in Hows, first \in BOOLEAN :
        Holds(Call(IF first THEN Series(<<g>>) ELSE Table1("plain", <<g>>),
                   IF first THEN Table2("plain", <<g>>) ELSE Series(<<g>>),
                   h, "None", TRUE))

Init ==
    \/ InitPlain \/ InitInvalid \/ InitMissing \/ InitFamilies \/ InitMixed
    \/ InitSchemas \/ InitSeries

\* overlay checks its arguments and takes the fast path
DoValidate == pc = "call" /\ \E c \in {Validate(Cur)} : Becomes(c)

\* overlay repairs its inputs
DoRepair == pc = "validated" /\ \E c \in {Repair(Cur)} : Becomes(c)

\* overlay runs the builder of how
DoCompute == pc = "repaired" /\ \E c \in {Compute(Cur)} : Becomes(c)

\* overlay filters the result and returns it
DoFinish == pc = "computed" /\ \E c \in {Finish(Cur)} : Becomes(c)

Next == DoValidate \/ DoRepair \/ DoCompute \/ DoFinish

Spec == Init /\ [][Next]_vars

TypeOK ==
    /\ pc \in {"call", "validated", "repaired", "computed", "done", "error"}
    /\ (pc = "error") = (err # "")
    /\ pc = "done" => result.err = ""

\* ------------------------------------------------------------------------
\* Properties
\* ------------------------------------------------------------------------

\* the inputs the checks of the arguments reject
Rejected(a, b) == a.series \/ b.series \/ Mixed(a) \/ Mixed(b)

DropWarnings(ws) == SelectSeq(ws, LAMBDA w : w.w = "dropped")

\* the number of parts of the geometries of df
PartCount(df) == SumSeq([i \in 1..NRows(df) |-> Cardinality(GeomCol(df)[i].atoms)])

\* the geometry type filter removed a row or a part of a row
LostGeometries(before, after) ==
    NRows(after) < NRows(before) \/ PartCount(after) < PartCount(before)

\* C5: keep_geom_type=None returns what keep_geom_type=True returns (the same
\* rows, or the same error) and warns whenever the filter drops geometries;
\* with an explicit True or False no drop-count warning is ever emitted.
C5_NoneIsTrueWithWarning ==
    /\ (pc = "call" /\ keep_geom_type = "None") =>
          LET n == overlay(df1, df2, how, "None", make_valid)
              t == overlay(df1, df2, how, "True", make_valid)
          IN  n.pc = t.pc /\ n.err = t.err /\ n.result = t.result
    /\ (pc = "done" /\ ~fast /\ keep_geom_type = "None" /\ LostGeometries(raw, result))
          => DropWarnings(warns) # <<>>
    /\ keep_geom_type # "None" => DropWarnings(warns) = <<>>

\* C5 witness: a default call that dropped geometries and warned
C5_Witness ==
    /\ pc = "done" /\ keep_geom_type = "None"
    /\ LostGeometries(raw, result) /\ DropWarnings(warns) # <<>>

\* C7: for inputs that pass the checks of the arguments, how='intersection'
\* with disjoint bounding boxes returns zero rows without any spatial-index
\* query; for no other how is the fast path taken.
C7_FastPath ==
    /\ (how = "intersection" /\ BoxesDisjoint(df1, df2) /\ ~Rejected(df1, df2)
        /\ pc # "call")
          => (pc = "done" /\ fast /\ NRows(result) = 0 /\ queries = 0)
    /\ fast => (how = "intersection" /\ BoxesDisjoint(df1, df2))

\* C7 witness: the fast path taken for two inputs that have rows
C7_Witness ==
    pc = "done" /\ fast /\ NRows(df1) > 0 /\ NRows(df2) > 0 /\ NRows(result) = 0

\* the geometry attribute of df is named `geometry` and is the last column
GeometryLast(df) ==
    /\ df.gcol = "geometry"
    /\ df.cols # <<>>
    /\ df.cols[Len(df.cols)] = "geometry"

GeometrySet(df) == {GeomCol(df)[i] : i \in 1..NRows(df)}

\* the geometries of a and b are all of one family
SameFamily(a, b) ==
    \E F \in {POLYGON_GEOM_TYPES, LINE_GEOM_TYPES, POINT_GEOM_TYPES} :
        /\ \A i \in 1..NRows(a) : GeomTypes(a)[i] \in F
        /\ \A i \in 1..NRows(b) : GeomTypes(b)[i] \in F

\* a column of b that is not its geometry has the name of the geometry
\* column of a
NameClash(a, b) ==
    \E p \in DOMAIN b.cols : b.cols[p] = a.gcol /\ b.cols[p] # b.gcol

\* overlay(B, A, 'intersection') returns the geometries of this result
SwappedAgrees ==
    LET s == overlay(df2, df1, how, keep_geom_type, make_valid)
    IN  s.pc = "done" /\ GeometrySet(s.result) = GeometrySet(result)

RemovedParts(df, gtype) ==
    SumSeq([i \in 1..NRows(df) |->
               IF GeomTypes(df)[i] = "GeometryCollection"
               THEN Cardinality({a \in GeomCol(df)[i].atoms :
                                    AtomType(a) \notin FamilyOf(gtype)})
               ELSE 0])

\* the geometries of the tables the extractor is given: a polygon, a line, a
\* point, and collections of one polygon with one or two parts of other
\* families
ExtractPool ==
    {Geom({"s9"}), Geom({"e23"}), Geom({"p1"}), Geom({"s1", "e23"}),
     Geom({"s1", "e23", "l9"}), Geom({"s9", "e23", "p1"})}

\* the rows of the table the extractor is given, at most
MaxExtractRows == 2

\* overlay has computed a table raw and is about to filter it
InitExtract ==
    \E n \in 0..MaxExtractRows, t \in {"Polygon", "LineString", "Point"},
       k \in {"None", "True"} :
        \E gs \in SeqsOfLen(ExtractPool, n) :
            Holds([Call(Unset, Unset, "union", k, TRUE)
                      EXCEPT !.pc = "computed", !.geom_type = t,
                             !.raw = Table1("plain", gs)])

NextExtract == DoFinish

SpecExtract == InitExtract /\ [][NextExtract]_vars

\* C3: the count the extractor reports is the number of parts of
\* GeometryCollection rows removed for being outside the target family plus
\* the number of rows removed by the plain filter.
C3_ReportedCount ==
    pc = "done" =>
        \A p \in DOMAIN DropWarnings(warns) :
            DropWarnings(warns)[p].n
                = RemovedParts(raw, geom_type) + (NRows(raw) - NRows(result))

\* a GeometryCollection row of raw with exactly one part of the family of
\* geom_type and one part outside it
OneInOneOut(g) ==
    /\ GeomTypeOf(g) = "GeometryCollection"
    /\ Cardinality(g.atoms) = 2
    /\ Cardinality({a \in g.atoms : AtomType(a) \in FamilyOf(geom_type)}) = 1

\* the result is the one row of raw, with its part of the family of geom_type
InFamilyPartKept ==
    /\ NRows(result) = 1
    /\ GeomCol(result)[1]
          = Geom({a \in GeomCol(raw)[1].atoms : AtomType(a) \in FamilyOf(geom_type)})

\* C4 as stated: with keep_geom_type=True, a computed result that is one
\* GeometryCollection row with one in-family and one out-of-family part
\* yields one row holding the in-family part, and a warning citing one
\* dropped geometry.
C4_Original ==
    (pc = "done" /\ ~fast /\ keep_geom_type = "True"
     /\ NRows(raw) = 1 /\ OneInOneOut(GeomCol(raw)[1]))
        => (InFamilyPartKept /\ DropWarnings(warns) = <<DropWarning(1)>>)

\* C4: such a computed result yields one row holding the in-family part;
\* with the default keep_geom_type=None the call emits one warning, citing
\* one dropped geometry, and with keep_geom_type=True it emits none.
C4_CollectionRow ==
    (pc = "done" /\ ~fast /\ keep_geom_type # "False"
     /\ NRows(raw) = 1 /\ OneInOneOut(GeomCol(raw)[1]))
        => /\ InFamilyPartKept
           /\ DropWarnings(warns)
                 = IF keep_geom_type = "None" THEN <<DropWarning(1)>> ELSE <<>>

\* C4 witness: a default call whose computed result is such a row
C4_Witness ==
    /\ pc = "done" /\ ~fast /\ keep_geom_type = "None" /\ how = "intersection"
    /\ NRows(raw) = 1 /\ OneInOneOut(GeomCol(raw)[1])
    /\ InFamilyPartKept /\ DropWarnings(warns) = <<DropWarning(1)>>

\* C6: with make_valid=False and an invalid polygon in an input that has
\* passed the checks of the arguments, overlay raises the value error of
\* _make_valid, having queried no spatial index and built no result, also
\* when how='intersection' and the bounding boxes are disjoint.
C6_InvalidRaises ==
    (/\ make_valid = FALSE /\ how \in allowed_hows /\ ~Rejected(df1, df2)
     /\ NRows(df1) > 0 /\ NRows(df2) > 0
     /\ InvalidCount(df1) + InvalidCount(df2) > 0
     /\ pc \notin {"call", "validated"})
        => (pc = "error" /\ err = "ValueError" /\ queries = 0 /\ result = Unset)

\* the geometry column of df is its only column that may be named `geometry`
OwnGeometry(df) == "geometry" \in Range(df.cols) => df.gcol = "geometry"

\* a table of the columns of df with the one geometry g
OneRow(df, g) ==
    Frame(df.cols, df.gcol, <<0>>,
          <<[c \in Range(df.cols) |-> IF c = df.gcol THEN g ELSE Num(0)]>>,
          df.crs)

\* the columns overlay(A,B,'intersection') returns for inputs of the schemas
\* of a and b whose geometries intersect
IntersectingColumns(a, b) ==
    overlay(OneRow(a, Geom({"s1"})), OneRow(b, Geom({"s1"})),
            "intersection", keep_geom_type, make_valid).result.cols

\* C8, for an input A without a second column named `geometry`: the
\* fast-path result has the column names, in the same order, that
\* overlay(A,B,'intersection') returns for inputs of the same two schemas
\* whose geometries intersect, with the geometry column named `geometry`
\* last.
C8_FastPathColumns ==
    (pc = "done" /\ fast /\ OwnGeometry(df1))
        => (result.cols = IntersectingColumns(df1, df2) /\ GeometryLast(result))

\* C9, for inputs that have rows and an input A without a second column
\* named `geometry`: when the 'intersection' and 'symmetric_difference' calls return, the
\* 'union' call with the same arguments returns as many rows as the two
\* together.
C9_UnionRowCount ==
    (pc = "call" /\ how = "union" /\ OwnGeometry(df1)
     /\ NRows(df1) > 0 /\ NRows(df2) > 0) =>
        LET u == overlay(df1, df2, "union", keep_geom_type, make_valid)
            i == overlay(df1, df2, "intersection", keep_geom_type, make_valid)
            s == overlay(df1, df2, "symmetric_difference", keep_geom_type, make_valid)
        IN  (i.pc = "done" /\ s.pc = "done")
                => (u.pc = "done"
                    /\ NRows(u.result) = NRows(i.result) + NRows(s.result))

\* C10, for inputs that have rows and an input A without a second column
\* named `geometry`: when the 'intersection' and 'difference' calls return, the
\* 'identity' call with the same arguments returns as many rows as the two
\* together.
C10_IdentityRowCount ==
    (pc = "call" /\ how = "identity" /\ OwnGeometry(df1)
     /\ NRows(df1) > 0 /\ NRows(df2) > 0) =>
        LET t == overlay(df1, df2, "identity", keep_geom_type, make_valid)
            i == overlay(df1, df2, "intersection", keep_geom_type, make_valid)
            d == overlay(df1, df2, "difference", keep_geom_type, make_valid)
        IN  (i.pc = "done" /\ d.pc = "done")
                => (t.pc = "done"
                    /\ NRows(t.result) = NRows(i.result) + NRows(d.result))

\* the columns of df other than its geometry column
Attributes(df) == SelectSeq(df.cols, LAMBDA c : c # df.gcol)

\* the attribute columns of a, then those of b, a name that both have with
\* the suffix _1 for a and _2 for b
UnionSchema(a, b) ==
    Suffixed(Attributes(a), Attributes(b), "_1")
        \o Suffixed(Attributes(b), Attributes(a), "_2")

IntersectingUnion(g, b) ==
    Closure(UNION {GeomCol(b)[j].atoms :
                      j \in {q \in 1..NRows(b) : Intersects(g, GeomCol(b)[q])}})

\* the geometry of row i of a minus the union of the geometries of b that
\* intersect it; a missing geometry stays missing
MinusUnion(a, b, i) ==
    IF isna(GeomCol(a)[i]) THEN GeomCol(a)[i]
    ELSE Geom(GeomCol(a)[i].atoms \ IntersectingUnion(GeomCol(a)[i], b))

\* the rows of a for which that geometry is not empty
Surviving(a, b) == {i \in 1..NRows(a) : ~is_empty(MinusUnion(a, b, i))}

\* the row of position p among the rows K of a table of n rows
NthOf(K, p) == CHOOSE i \in K : Cardinality({q \in K : q <= i}) = p

\* C12: the difference builder returns the columns of A alone and, for each
\* row i of A whose geometry minus the union of the B geometries that
\* intersect it is not empty, and for no other row, one row with the label
\* and the attributes of row i and that geometry, in the order of A.
C12_DifferenceRows ==
    (pc = "computed" /\ how = "difference") =>
        /\ raw.cols = w1.cols /\ raw.gcol = w1.gcol
        /\ NRows(raw) = Cardinality(Surviving(w1, w2))
        /\ \A p \in 1..NRows(raw) :
              LET i == NthOf(Surviving(w1, w2), p)
              IN  /\ raw.index[p] = w1.index[i]
                  /\ raw.rows[p] = [w1.rows[i] EXCEPT ![w1.gcol] = MinusUnion(w1, w2, i)]

\* C12 witness: a difference that removes a row of A and shrinks another
C12_Witness ==
    /\ pc = "computed" /\ how = "difference"
    /\ 0 < NRows(raw) /\ NRows(raw) < NRows(w1)
    /\ \E p \in 1..NRows(raw) : \A i \in 1..NRows(w1) : GeomCol(raw)[p] # GeomCol(w1)[i]

\* C13: no step of overlay changes the two tables the caller passed: the
\* rows, row labels, columns, geometry column name and cells of df1 and df2
\* stay what they were, whether the call returns, raises or takes the fast
\* path.
C13_InputsUnchanged == [][df1' = df1 /\ df2' = df2]_vars

\* C13 witness: a call that has returned after repairing a copy of an input
\* that holds an invalid polygon, the input still holding it
C13_Witness ==
    /\ pc = "done" /\ ~fast
    /\ InvalidCount(df1) + InvalidCount(df2) > 0
    /\ InvalidCount(w1) + InvalidCount(w2) = 0

\* C14: a how outside the allowed ones makes overlay raise the value error
\* at once, before the GeoSeries, CRS, family and validity checks: no warning,
\* no query, no repaired copy, no result.
C14_UnknownHow ==
    (how \notin allowed_hows /\ pc # "call")
        => /\ pc = "error" /\ err = "ValueError"
           /\ warns = <<>> /\ queries = 0
           /\ w1 = Unset /\ w2 = Unset /\ raw = Unset /\ result = Unset

\* C14 witness: the value error for inputs that each later check would
\* reject or warn about: a GeoSeries, two CRS, mixed families, an invalid
\* polygon with make_valid=False
C14_Witness ==
    /\ pc = "error" /\ err = "ValueError" /\ how \notin allowed_hows
    /\ \/ df1.series \/ df2.series
       \/ df1.crs # df2.crs
       \/ Mixed(df1) \/ Mixed(df2)
       \/ (~make_valid /\ InvalidCount(df1) + InvalidCount(df2) > 0)

\* the families that the geometries of df belong to (a missing geometry and
\* a GeometryCollection belong to none)
Families(df) == {FamilyOf(GeomTypes(df)[i]) : i \in 1..NRows(df)} \ {{}}

\* C15: for every valid how, a table whose geometries are of more than one
\* family makes overlay raise the not-implemented error that names df1 when
\* df1 mixes (also when df2 does too) and df2 when only df2 does, before the
\* fast path, the repair and any query.
C15_MixedFamilies ==
    (/\ how \in allowed_hows /\ ~df1.series /\ ~df2.series /\ pc # "call"
     /\ (Cardinality(Families(df1)) > 1 \/ Cardinality(Families(df2)) > 1))
        => /\ pc = "error"
           /\ err = IF Cardinality(Families(df1)) > 1
                    THEN "NotImplementedError df1" ELSE "NotImplementedError df2"
           /\ ~fast /\ queries = 0
           /\ w1 = Unset /\ w2 = Unset /\ raw = Unset /\ result = Unset

\* C15 witness: both tables mix families, and the error names df1
C15_Witness ==
    /\ pc = "error" /\ err = "NotImplementedError df1"
    /\ Cardinality(Families(df1)) > 1 /\ Cardinality(Families(df2)) > 1

\* the call that differs from the current one in the CRS of df2 alone, which
\* is the CRS of df1
SameCrsCall ==
    overlay(df1, [df2 EXCEPT !.crs = df1.crs], how, keep_geom_type, make_valid)

\* C16: a call whose tables have different CRS ends as the call that differs
\* in the CRS of df2 alone ends: the same result (rows, geometries,
\* attributes) or the same error, and the same warnings but for the CRS
\* warning that it adds.
C16_CrsMismatch ==
    (pc \in {"done", "error"} /\ df1.crs # df2.crs)
        => /\ pc = SameCrsCall.pc
           /\ err = SameCrsCall.err
           /\ result = SameCrsCall.result
           /\ SelectSeq(warns, LAMBDA w : w # CrsWarning) = SameCrsCall.warns
           /\ Len(warns) <= Len(SameCrsCall.warns) + 1

\* C16 witness: a union of tables of different CRS returned rows, with the
\* CRS warning
C16_Witness ==
    /\ pc = "done" /\ how = "union" /\ df1.crs # df2.crs
    /\ NRows(result) > 1
    /\ \E i \in DOMAIN warns : warns[i] = CrsWarning

\* the geometries of the polygon family in the geometry column of df
PolygonRows(df) ==
    {i \in 1..NRows(df) : GeomTypeOf(GeomCol(df)[i]) \in POLYGON_GEOM_TYPES}

\* C17: for every how and both values of make_valid, every geometry of the
\* polygon family in the result of a call that succeeded is valid.
C17_PolygonsValid ==
    (pc = "done" /\ how \in allowed_hows)
        => \A i \in PolygonRows(result) : is_valid(GeomCol(result)[i])

\* C17 witness: with make_valid=False an invalid polygon got past the repair
\* of the inputs, and the result has a polygon made from it
C17_Witness ==
    /\ pc = "done" /\ ~fast /\ ~make_valid
    /\ InvalidCount(w1) > 0
    /\ \E i \in PolygonRows(result) :
           GeomCol(result)[i].atoms \subseteq {"s1", "s2"}

\* the row at position p of df has, under the names new, the values that
\* the row src has under the names old
Carries(df, p, new, src, old) ==
    \A q \in DOMAIN old : df.rows[p][new[q]] = src[old[q]]

\* the rows of the table df are the candidate pairs of a and b, in the order
\* of the query: each has the intersection of its pair for geometry and the
\* attribute values of the two rows of its pair
RowPerPair(df, a, b) ==
    /\ NRows(df) = Len(Query(a, b))
    /\ \A p \in 1..NRows(df) :
        /\ df.rows[p][df.gcol].atoms =
               Intersection(GeomCol(a)[Query(a, b)[p][1] + 1],
                            GeomCol(b)[Query(a, b)[p][2] + 1]).atoms
        /\ Carries(df, p, Suffixed(Attributes(a), Attributes(b), "_1"),
                   a.rows[Query(a, b)[p][1] + 1], Attributes(a))
        /\ Carries(df, p, Suffixed(Attributes(b), Attributes(a), "_2"),
                   b.rows[Query(a, b)[p][2] + 1], Attributes(b))

\* C18: the intersection builder returns one row per candidate pair, in the
\* order of the pairs, with the intersection of the pair and the attribute
\* values of A's row and B's row, whatever the row labels.
C18_RowPerPair ==
    (pc = "computed" /\ how = "intersection" /\ Query(w1, w2) # <<>>)
        => RowPerPair(raw, w1, w2)

\* the positions of the rows of b that the query paired with the row of a at
\* position i, ascending
PairedWith(a, b, i) ==
    SelectSeq(Iota(NRows(b)),
              LAMBDA j : \E p \in DOMAIN Query(a, b) : Query(a, b)[p] = <<i, j>>)

\* the geometry left of x after the geometries ys are subtracted from it one
\* at a time, from the first on
RECURSIVE Subtracted(_, _)
Subtracted(x, ys) ==
    IF ys = <<>> THEN x
    ELSE Subtracted([k |-> "geom", n |-> 0,
                     atoms |-> x.atoms \ Closure(Head(ys).atoms),
                     valid |-> (x.valid /\ Head(ys).valid)
                               \/ x.atoms \subseteq Closure(Head(ys).atoms)],
                    Tail(ys))

\* C19: the difference builder folds each row i of A with exactly the rows of
\* B that the query paired with i, in ascending order of B's rows, starting
\* from A[i]; a row of A that has no pair keeps its geometry.
C19_FoldPartition ==
    (pc \in {"repaired", "computed"})
        => /\ Len(sidx(w1, w2)) = NRows(w1)
           /\ \A i \in 1..NRows(w1) :
               /\ sidx(w1, w2)[i] = PairedWith(w1, w2, i - 1)
               /\ new_g(w1, w2, sidx(w1, w2))[i] =
                      Subtracted(GeomCol(w1)[i],
                                 [q \in DOMAIN PairedWith(w1, w2, i - 1) |->
                                     GeomCol(w2)[PairedWith(w1, w2, i - 1)[q] + 1]])
               /\ PairedWith(w1, w2, i - 1) = <<>>
                      => new_g(w1, w2, sidx(w1, w2))[i] = GeomCol(w1)[i]

\* C19 witness: a difference in which the first row of A has no pair and a
\* later row has one
C19_Witness ==
    /\ pc = "computed" /\ how = "difference" /\ NRows(w1) > 1
    /\ PairedWith(w1, w2, 0) = <<>>
    /\ PairedWith(w1, w2, NRows(w1) - 1) # <<>>
    /\ NRows(raw) = NRows(w1)

\* the columns of df that are neither its geometry column nor named
\* `geometry`, the name under which the composer stores its geometries
OwnAttributes(df) == SelectSeq(Attributes(df), LAMBDA c : c # "geometry")

\* every column of names of the row at position p of df is missing
Nulled(df, p, names) == \A q \in DOMAIN names : isna(df.rows[p][names[q]])

\* the rows of the table df are the rows of d1 = a-b followed by the rows of
\* d2 = b-a, each side in its order: a row of d1 has its geometry and its
\* attribute values and nothing of b, a row of d2 its geometry and its
\* attribute values and nothing of a
RowsOfEitherSide(df, a, b, d1, d2) ==
    /\ NRows(df) = NRows(d1) + NRows(d2)
    /\ \A p \in 1..NRows(d1) :
        /\ df.rows[p][df.gcol] = GeomCol(d1)[p]
        /\ Carries(df, p, Suffixed(OwnAttributes(a), OwnAttributes(b), "_1"),
                   d1.rows[p], OwnAttributes(a))
        /\ Nulled(df, p, Suffixed(OwnAttributes(b), OwnAttributes(a), "_2"))
    /\ \A p \in 1..NRows(d2) :
        /\ df.rows[NRows(d1) + p][df.gcol] = GeomCol(d2)[p]
        /\ Carries(df, NRows(d1) + p, Suffixed(OwnAttributes(b), OwnAttributes(a), "_2"),
                   d2.rows[p], OwnAttributes(b))
        /\ Nulled(df, NRows(d1) + p, Suffixed(OwnAttributes(a), OwnAttributes(b), "_1"))

\* C20: the symmetric-difference composer returns |D1| + |D2| rows, the rows
\* of D1 = A-B before the rows of D2 = B-A, each side in its order; each row
\* has the values of its one source row and null in every column of the
\* other side.
C20_NoMatch ==
    (pc = "computed" /\ how = "symmetric_difference")
        => RowsOfEitherSide(raw, w1, w2, _overlay_difference(w1, w2),
                            _overlay_difference(w2, w1))

\* C20 witness: a symmetric difference with rows of both sides
C20_Witness ==
    /\ pc = "computed" /\ how = "symmetric_difference"
    /\ NRows(_overlay_difference(w1, w2)) > 0
    /\ NRows(_overlay_difference(w2, w1)) > 0
    /\ NRows(raw) > 2

\* the geometries of the rows of d1 followed by the geometries of the rows
\* of d2
GeometriesOfBoth(d1, d2) == GeomCol(d1) \o GeomCol(d2)

\* no geometry of the table df is missing
NoNullGeometry(df) == \A p \in 1..NRows(df) : ~isna(GeomCol(df)[p])

\* neither temporary geometry column is in the composer's table, and neither
\* key column is in what overlay returns
TemporariesGone ==
    /\ (pc = "computed" /\ how = "symmetric_difference")
        => {"geometry_1", "geometry_2"}
               \cap Range(_overlay_symmetric_diff(w1, w2).cols) = {}
    /\ (pc = "done" /\ how \in allowed_hows)
        => {"__idx1", "__idx2", "geometry_1", "geometry_2"} \cap Range(result.cols) = {}

\* C21 as stated: each row of the symmetric difference has the geometry of
\* the difference row it derives from, no row has a null geometry, and the
\* temporary columns are gone.
C21_Original ==
    /\ (pc = "computed" /\ how = "symmetric_difference")
        => /\ GeomCol(raw) = GeometriesOfBoth(_overlay_difference(w1, w2),
                                              _overlay_difference(w2, w1))
           /\ NoNullGeometry(raw)
    /\ TemporariesGone

\* C21: each row of the symmetric difference has the geometry of the
\* difference row it derives from, which is null only when the input row it
\* comes from has a missing geometry; the temporary columns geometry_1 and
\* geometry_2 are not in the composer's table and __idx1, __idx2 are not in
\* what overlay returns.
C21_SymmetricGeometry ==
    /\ (pc = "computed" /\ how = "symmetric_difference")
        => /\ GeomCol(raw) = GeometriesOfBoth(_overlay_difference(w1, w2),
                                              _overlay_difference(w2, w1))
           /\ (NoNullGeometry(w1) /\ NoNullGeometry(w2)) => NoNullGeometry(raw)
           /\ \A p \in 1..NRows(raw) :
                  isna(GeomCol(raw)[p])
                      => \E i \in 1..(NRows(w1) + NRows(w2)) :
                             isna((GeomCol(w1) \o GeomCol(w2))[i])
    /\ TemporariesGone

\* C21 witness: a symmetric difference with a row of A that B has cut and a
\* row of B that A has cut
C21_Witness ==
    /\ pc = "done" /\ how = "symmetric_difference" /\ NRows(result) = 2
    /\ NRows(df1) = 1 /\ NRows(df2) = 1
    /\ GeomCol(result)[1] # GeomCol(df1)[1]
    /\ GeomCol(result)[2] # GeomCol(df2)[1]
    /\ "k_1" \in Range(result.cols)

\* the columns of the table df but the two key columns, the geometry column
\* last
ResultColumns(df) ==
    SelectSeq(df.cols, LAMBDA c : c \notin {"__idx1", "__idx2", "geometry"})
        \o <<"geometry">>

\* the rows of df after the first n are the rows of d = a-b in their order:
\* each has the attribute values of its row of a under the names that the
\* intersection rows use for them, and nothing of b
DifferenceRowsAligned(df, n, a, b, d) ==
    /\ NRows(df) = n + NRows(d)
    /\ \A p \in 1..NRows(d) :
        /\ Carries(df, n + p, Suffixed(OwnAttributes(a), OwnAttributes(b), "_1"),
                   d.rows[p], OwnAttributes(a))
        /\ Nulled(df, n + p, Suffixed(OwnAttributes(b), OwnAttributes(a), "_2"))

\* the first n rows of df, one for each pair of the query, have the
\* attribute values of their row of a under the same names
IntersectionRowsAligned(df, n, a, b) ==
    \A p \in 1..n :
        Carries(df, p, Suffixed(OwnAttributes(a), OwnAttributes(b), "_1"),
                a.rows[Query(a, b)[p][1] + 1], OwnAttributes(a))

\* each attribute of a is a column of df under one name: its own or the one
\* suffixed _1, never both
UnderOneName(df, a) ==
    \A q \in DOMAIN OwnAttributes(a) :
        (OwnAttributes(a)[q] \in Range(df.cols))
            # (OwnAttributes(a)[q] \o "_1" \in Range(df.cols))

\* C22: in the identity result the rows of the A-B difference carry each
\* attribute value of A under the name that the intersection rows use for it
\* (suffixed _1 when B has a column of that name, plain otherwise) and null
\* in each column of B, and the result has exactly the columns of the
\* intersection result: no attribute of A is under two names.
C22_IdentityAligned ==
    (pc = "computed" /\ how = "identity")
        => /\ raw.cols = ResultColumns(_overlay_intersection(w1, w2))
           /\ UnderOneName(raw, w1)
           /\ IntersectionRowsAligned(raw, NRows(_overlay_intersection(w1, w2)),
                                      w1, w2)
           /\ DifferenceRowsAligned(raw, NRows(_overlay_intersection(w1, w2)),
                                    w1, w2, _overlay_difference(w1, w2))

\* C22 witness: an identity with an intersection row and a difference row,
\* both with A's k under the name k_1
C22_Witness ==
    /\ pc = "computed" /\ how = "identity"
    /\ NRows(_overlay_intersection(w1, w2)) > 0
    /\ NRows(_overlay_difference(w1, w2)) > 0
    /\ "k_1" \in Range(raw.cols) /\ "k" \notin Range(raw.cols)
    /\ \A p \in 1..NRows(raw) : ~isna(raw.rows[p]["k_1"])

\* the first rows of df are the candidate pairs of a and b in the order of
\* the query: each has the attribute values of the two rows of its pair and
\* their intersection
BlockOfPairs(df, a, b) ==
    \A p \in 1..Len(Query(a, b)) :
        /\ Carries(df, p, Suffixed(OwnAttributes(a), OwnAttributes(b), "_1"),
                   a.rows[Query(a, b)[p][1] + 1], OwnAttributes(a))
        /\ Carries(df, p, Suffixed(OwnAttributes(b), OwnAttributes(a), "_2"),
                   b.rows[Query(a, b)[p][2] + 1], OwnAttributes(b))
        /\ df.rows[p]["geometry"].atoms =
               Intersection(GeomCol(a)[Query(a, b)[p][1] + 1],
                            GeomCol(b)[Query(a, b)[p][2] + 1]).atoms

\* the rows of df after the first n are the rows of the difference d of a
\* (whose columns get the suffix sa) and b (suffix sb), in the order of d
BlockOfDifference(df, n, a, sa, b, sb, d) ==
    \A p \in 1..NRows(d) :
        /\ Carries(df, n + p, Suffixed(OwnAttributes(a), OwnAttributes(b), sa),
                   d.rows[p], OwnAttributes(a))
        /\ Nulled(df, n + p, Suffixed(OwnAttributes(b), OwnAttributes(a), sb))
        /\ df.rows[n + p]["geometry"] = GeomCol(d)[p]

\* C23: the union lists the intersection rows in pair order, then the rows
\* of A-B, then the rows of B-A; the identity lists the intersection rows,
\* then the rows of A-B; each block in the order of its builder.
C23_BlockOrder ==
    /\ (pc = "computed" /\ how = "union")
        => /\ NRows(raw) = Len(Query(w1, w2)) + NRows(_overlay_difference(w1, w2))
                               + NRows(_overlay_difference(w2, w1))
           /\ BlockOfPairs(raw, w1, w2)
           /\ BlockOfDifference(raw, Len(Query(w1, w2)), w1, "_1", w2, "_2",
                                _overlay_difference(w1, w2))
           /\ BlockOfDifference(raw, Len(Query(w1, w2))
                                         + NRows(_overlay_difference(w1, w2)),
                                w2, "_2", w1, "_1", _overlay_difference(w2, w1))
    /\ (pc = "computed" /\ how = "identity")
        => /\ NRows(raw) = Len(Query(w1, w2)) + NRows(_overlay_difference(w1, w2))
           /\ BlockOfPairs(raw, w1, w2)
           /\ BlockOfDifference(raw, Len(Query(w1, w2)), w1, "_1", w2, "_2",
                                _overlay_difference(w1, w2))

\* C23 witness: a union with a row of each of the three blocks
C23_Witness ==
    /\ pc = "computed" /\ how = "union" /\ NRows(raw) = 3
    /\ Len(Query(w1, w2)) = 1
    /\ NRows(_overlay_difference(w1, w2)) = 1
    /\ NRows(_overlay_difference(w2, w1)) = 1

\* the table the intersection builder returns for inputs of the schemas of a
\* and b that have a candidate pair
WithPair(a, b) ==
    _overlay_intersection(OneRow(a, Geom({"s1"})), OneRow(b, Geom({"s1"})))

\* C24, for an input A without a second column named `geometry`: when the
\* query finds no candidate pair, the empty table of the intersection
\* builder has the column names, key columns and suffixes included, and the
\* geometry column name of the table it returns for inputs of the same two
\* schemas that have a pair.
C24_EmptySchema ==
    (/\ pc = "repaired" /\ how \in {"intersection", "union", "identity"}
     /\ Query(w1, w2) = <<>> /\ OwnGeometry(w1))
        => /\ _overlay_intersection(w1, w2).err = ""
           /\ NRows(_overlay_intersection(w1, w2)) = 0
           /\ Range(_overlay_intersection(w1, w2).cols) = Range(WithPair(w1, w2).cols)
           /\ _overlay_intersection(w1, w2).gcol = WithPair(w1, w2).gcol

\* the family of the geometry of the first row of df
FirstFamily(df) == FamilyOf(GeomTypeOf(GeomCol(df)[1]))

\* C25: with keep_geom_type None or True the target family is the family of
\* the geometry of A's first row as the caller passed it, and every geometry
\* of the result belongs to it, whatever B and the later rows of A hold.
C25_TargetFamily ==
    /\ (pc \in {"repaired", "computed", "done"} /\ ~fast /\ keep_geom_type # "False")
        => FamilyOf(geom_type) = FirstFamily(df1)
    /\ (pc = "done" /\ keep_geom_type # "False")
        => \A i \in 1..NRows(result) :
               GeomTypeOf(GeomCol(result)[i]) \in FirstFamily(df1)

\* C25 witness: polygons of A and lines of B, and a result that kept the
\* polygons alone after the filter removed a geometry
C25_Witness ==
    /\ pc = "done" /\ ~fast /\ keep_geom_type = "True"
    /\ NRows(df2) > 0 /\ FirstFamily(df2) = LINE_GEOM_TYPES
    /\ FirstFamily(df1) = POLYGON_GEOM_TYPES
    /\ NRows(result) > 0
    /\ LostGeometries(raw, result)

\* the geometry the extractor leaves in row i of df for the family of gtype:
\* the parts of that family of the row's own collection, or the row's
\* geometry when it is no collection
OwnParts(df, i, gtype) ==
    IF GeomTypes(df)[i] = "GeometryCollection"
    THEN Geom({a \in GeomCol(df)[i].atoms : AtomType(a) \in FamilyOf(gtype)})
    ELSE GeomCol(df)[i]

\* the rows of df that the extractor retains: the collections with a part of
\* the family of gtype, and the other rows whose geometry is of that family
Retained(df, gtype) ==
    {i \in 1..NRows(df) :
        IF GeomTypes(df)[i] = "GeometryCollection"
        THEN OwnParts(df, i, gtype).atoms # {}
        ELSE GeomTypes(df)[i] \in FamilyOf(gtype)}

InvalidPolygons(df) ==
    /\ \A i \in 1..NRows(df) : GeomTypeOf(GeomCol(df)[i]) \in POLYGON_GEOM_TYPES
    /\ \E i \in 1..NRows(df) : ~is_valid(GeomCol(df)[i])

\* the arguments of the call meet one of the fatal conditions
Fatal ==
    \/ how \notin allowed_hows
    \/ df1.series \/ df2.series
    \/ Cardinality(Families(df1)) > 1 \/ Cardinality(Families(df2)) > 1
    \/ (~make_valid /\ (InvalidPolygons(df1) \/ InvalidPolygons(df2)))

\* C27: a call whose arguments meet a fatal condition never queries a
\* spatial index and never builds a table of intersections or differences:
\* no call makes a query or a pairwise operation and then ends in the error
\* of a fatal check.
C27_FailFast ==
    Fatal => (queries = 0 /\ raw = Unset /\ pc \notin {"repaired", "computed"})

\* C27 witness: with make_valid=False the first table passes every check and
\* the second has an invalid polygon; the call has raised before any query
C27_Witness ==
    /\ pc = "error" /\ err = "ValueError" /\ how \in allowed_hows
    /\ ~make_valid /\ ~InvalidPolygons(df1) /\ InvalidPolygons(df2)
    /\ NRows(df1) > 0 /\ w1 = df1 /\ queries = 0

\* C28: for every how, the rows of a returned result are labelled 0..n-1 in
\* their order, whatever the row labels of A and B and whatever rows the
\* difference or the geometry type filter removed.
C28_ContiguousLabels ==
    (pc = "done" /\ how \in allowed_hows)
        => result.index = Iota(NRows(result))

\* C28 witness: a result built from a table whose labels were not 0..n-1,
\* because a row was removed before the last one or the input had labels of
\* its own
C28_Witness ==
    /\ pc = "done" /\ ~fast /\ NRows(result) > 0
    /\ raw.index # Iota(NRows(raw))
    /\ result.index = Iota(NRows(result))

\* C29, for tables whose geometry column is named `geometry` and has no
\* missing geometry: a call with a valid how and two tables, each of one
\* family and without invalid geometries, returns a result for every
\* keep_geom_type, also when A or B has no row; for how='intersection' a
\* table without rows gives a result without rows.
C29_AlwaysCompletes ==
    (/\ how \in allowed_hows /\ ~df1.series /\ ~df2.series
     /\ Cardinality(Families(df1)) <= 1 /\ Cardinality(Families(df2)) <= 1
     /\ InvalidCount(df1) + InvalidCount(df2) = 0
     /\ df1.gcol = "geometry" /\ df2.gcol = "geometry"
     /\ NoNullGeometry(df1) /\ NoNullGeometry(df2))
        => /\ pc # "error"
           /\ (pc = "done" /\ how = "intersection"
               /\ (NRows(df1) = 0 \/ NRows(df2) = 0)) => NRows(result) = 0

\* the polygon-family parts of the geometry g, as one geometry
PolygonPart(g) == Geom({a \in g.atoms : AtomType(a) \in POLYGON_GEOM_TYPES})

\* the rows of df that the repair of _make_valid keeps: the valid ones and
\* the invalid ones whose repaired geometry has a part of the polygon family
KeptByRepair(df) ==
    {i \in 1..NRows(df) :
        is_valid(GeomCol(df)[i]) \/ PolygonPart(GeomCol(df)[i]).atoms # {}}

\* w is df with its invalid geometries repaired and filtered to the polygon
\* family: the kept rows in their order, under their labels, a repaired row
\* with the polygon parts of its geometry and every other cell as it was
RepairedOnCopy(df, w) ==
    LET K == KeptByRepair(df)
        Row(p) == CHOOSE i \in K : Cardinality({j \in K : j < i}) = p - 1
    IN  /\ w.cols = df.cols /\ w.gcol = df.gcol /\ w.crs = df.crs
        /\ NRows(w) = Cardinality(K)
        /\ \A p \in 1..NRows(w) :
              /\ w.index[p] = df.index[Row(p)]
              /\ w.rows[p] =
                    [df.rows[Row(p)] EXCEPT ![df.gcol] =
                        IF is_valid(@) THEN @ ELSE PolygonPart(@)]

\* C30: with make_valid=True, once the inputs are repaired and before the
\* overlay is computed, the working copy of an all-polygon input that has an
\* invalid geometry holds the rows whose repaired geometry has a polygon
\* part, with that part, and not the others; the working copy of an input
\* without invalid geometry is the input; the call has emitted no drop-count
\* warning, whatever keep_geom_type is.
C30_RepairFilters ==
    (pc = "repaired" /\ make_valid) =>
        /\ InvalidPolygons(df1) => RepairedOnCopy(df1, w1)
        /\ InvalidPolygons(df2) => RepairedOnCopy(df2, w2)
        /\ InvalidCount(df1) = 0 => w1 = df1
        /\ InvalidCount(df2) = 0 => w2 = df2
        /\ DropWarnings(warns) = <<>>

\* A has a row whose repaired geometry is a line and a row that stays: the
\* first is removed from the working copy, under either keep_geom_type
C30_Witness ==
    /\ pc = "repaired" /\ make_valid /\ keep_geom_type = "None"
    /\ InvalidPolygons(df1)
    /\ 0 < NRows(w1) /\ NRows(w1) < NRows(df1)
    /\ w2 = df2

====
